---- MODULE Spec2Model ----
(***************************************************************************)
(* Model of app.py, the Streamlit weather dashboard.                       *)
(*                                                                         *)
(* One execution of the script from top to bottom is a "run".  A run is    *)
(* started by a page load / plain rerun, by a submitted chat question, by  *)
(* a click on "Refresh Data", or by st.rerun().  Runs of one session are   *)
(* sequential: st.session_state is the only state that survives a run.     *)
(* Every call that leaves the process (stations, better_forecast, alerts,  *)
(* one generate_content per model candidate) is its own step, and its      *)
(* outcome is chosen by the environment.                                   *)
(*                                                                         *)
(* Python's None is the empty tuple and a present value x is <<x>>.        *)
(* JSON objects are records, JSON arrays are tuples, JSON scalars strings. *)
(***************************************************************************)
EXTENDS Integers, Sequences, FiniteSets, TLC

VARIABLES
    session_state,   \* st.session_state: key |-> value, keys come and go
    pc,              \* position of the script; "idle" = no run in progress
    prompt,          \* value of st.chat_input in this run (None or <<question>>)
    refresh_clicked, \* value of st.button("Refresh Data") in this run
    locals,          \* script variables computed by the run
    call,            \* the activation of ask_gemini_smartly of this run
    screen,          \* what this run has rendered so far
    net,             \* history: outbound requests issued by this run, in order
    outlook_fetch,   \* history: forecast fetch the outlook in ai_outlook_content / the cache was generated from
    outlook_failed,  \* history: the last outlook generation exhausted every candidate
    after_refresh,   \* history: this run was started by the st.rerun() of Refresh Data
    msgs0,           \* history: the conversation when this run started
    nasks,           \* history: questions submitted so far
    nrefreshes,      \* history: Refresh Data clicks so far
    nfetches         \* history: forecast responses received so far

vars == <<session_state, pc, prompt, refresh_clicked, locals, call, screen, net,
          outlook_fetch, outlook_failed, after_refresh, msgs0, nasks, nrefreshes, nfetches>>

(***************************************************************************)
(* Bounds                                                                  *)
(***************************************************************************)
MaxAsks == 2
MaxRefreshes == 1

(***************************************************************************)
(* Values                                                                  *)
(***************************************************************************)
None == <<>>
Some(x) == <<x>>

Has(ss, k) == k \in DOMAIN ss
Put(ss, k, v) == [x \in (DOMAIN ss) \cup {k} |-> IF x = k THEN v ELSE ss[x]]
Del(ss, k) == [x \in (DOMAIN ss) \ {k} |-> ss[x]]
Get(d, k, default) == IF k \in DOMAIN d THEN d[k] ELSE default
Take(s, n) == IF Len(s) <= n THEN s ELSE SubSeq(s, 1, n)

\* Python truthiness of an optional string: None and "" are both false.
Truthy(r) == r # None /\ r[1] # ""

models_to_try == <<"gemini-2.5-flash-lite", "gemini-2.5-flash", "gemini-3-flash">>

GREETING == "I'm monitoring Ramsey Ct. conditions. Ask me anything!"
FALLBACK == "I'm currently resting (All API Models Busy). Please check back in a minute!"
UNAVAILABLE == "Forecast data unavailable."
ERR_STATION == "Error finding station"
ERR_RUN == "Error"
ERR_CHART == "Could not load chart data"

(***************************************************************************)
(* The environment: what the remote services may answer                    *)
(***************************************************************************)
Questions == {"Will it rain?", "Is it windy?"}

\* response.text of a successful generate_content
ResponseTexts == {"", "Mild and dry week", "Rain by midweek"}

\* outcome of one candidate: None = the attempt raised, <<t>> = response.text
Outcomes == {None} \cup {Some(t) : t \in ResponseTexts}

StationResponses ==
    { [raised |-> TRUE],
      [raised |-> FALSE, json |-> [status |-> "UNAUTHORIZED"]],
      [raised |-> FALSE, json |-> [stations |-> <<>>]],
      [raised |-> FALSE, json |-> [stations |-> << [station_id |-> "4711", latitude |-> "47.6", longitude |-> "-122.3"] >>]] }

HighOf(n) == IF n = 1 THEN "58" ELSE IF n = 2 THEN "61" ELSE IF n = 3 THEN "64" ELSE "67"

Conditions(n) == [conditions |-> "Clear", air_temperature |-> HighOf(n), relative_humidity |-> "40"]
Day(n) == [day_start_local |-> "1762156800", air_temp_high |-> HighOf(n), conditions |-> "Sunny"]
Hour(n) == [time |-> "future", air_temperature |-> HighOf(n), precip_probability |-> "10"]

\* The n-th forecast response.  fetch is not part of the payload: it names the fetch.
ForecastResponses(n) ==
    { [raised |-> TRUE],
      [raised |-> FALSE, fetch |-> n, type |-> "array", json |-> <<>>],
      [raised |-> FALSE, fetch |-> n, type |-> "object",
       json |-> [current_conditions |-> Conditions(n),
                 forecast |-> [daily |-> <<Day(n)>>, hourly |-> <<Hour(n)>>]]],
      [raised |-> FALSE, fetch |-> n, type |-> "object",
       json |-> [current_conditions |-> Conditions(n)]],
      [raised |-> FALSE, fetch |-> n, type |-> "object",
       json |-> [forecast |-> [daily |-> <<Day(n)>>, hourly |-> <<Hour(n)>>]]],
      [raised |-> FALSE, fetch |-> n, type |-> "object",
       json |-> [current_conditions |-> [conditions |-> "Clear", air_temperature |-> "null"],
                 forecast |-> [daily |-> <<Day(n)>>, hourly |-> <<Hour(n)>>]]] }

WindAdvisory == [event |-> "Wind Advisory", severity |-> "Moderate"]

AlertResponses ==
    { [raised |-> TRUE],
      [raised |-> FALSE, json |-> [title |-> "Not Found"]],
      [raised |-> FALSE, json |-> [features |-> <<>>]],
      [raised |-> FALSE, json |-> [features |-> << [id |-> "urn:1"] >>]],
      [raised |-> FALSE, json |-> [features |-> << [properties |-> Some(WindAdvisory)] >>]],
      [raised |-> FALSE, json |-> [features |-> << [properties |-> None] >>]] }

\* the alert fetch did not deliver a usable, non-empty "features" list
AlertFetchFailed(resp) ==
    \/ resp.raised
    \/ ~Has(resp.json, "features")
    \/ Len(resp.json.features) = 0

(***************************************************************************)
(* Helper functions of the script                                          *)
(***************************************************************************)
\* get_station_info: None stands for st.error(...) followed by st.stop()
get_station_info(resp) ==
    IF resp.raised THEN None
    ELSE IF ~Has(resp.json, "stations") THEN None
    ELSE IF Len(resp.json.stations) = 0 THEN None
    ELSE LET station == resp.json.stations[1]
         IN  IF ~({"station_id", "latitude", "longitude"} \subseteq DOMAIN station) THEN None
             ELSE Some([id |-> station.station_id, lat |-> station.latitude, lon |-> station.longitude])

\* get_tempest_forecast: no handler of its own, an exception leaves the function
get_tempest_forecast(resp) ==
    IF resp.raised THEN [raised |-> TRUE]
    ELSE [raised |-> FALSE, value |-> [fetch |-> resp.fetch, type |-> resp.type, json |-> resp.json]]

get_nws_alerts_raising(resp) ==
    IF resp.raised THEN [raised |-> TRUE]
    ELSE IF Has(resp.json, "features") /\ Len(resp.json.features) > 0
         THEN IF \A i \in 1..Len(resp.json.features) : Has(resp.json.features[i], "properties")
              THEN [raised |-> FALSE,
                    value |-> [i \in 1..Len(resp.json.features) |-> resp.json.features[i].properties]]
              ELSE [raised |-> TRUE]
         ELSE [raised |-> FALSE, value |-> <<>>]

\* get_nws_alerts: the bare except turns every exception into the empty list
get_nws_alerts(resp) ==
    IF resp.raised THEN [raised |-> FALSE, value |-> <<>>]
    ELSE IF Has(resp.json, "features") /\ Len(resp.json.features) > 0
         THEN IF \A i \in 1..Len(resp.json.features) : Has(resp.json.features[i], "properties")
              THEN [raised |-> FALSE,
                    value |-> [i \in 1..Len(resp.json.features) |-> resp.json.features[i].properties]]
              ELSE [raised |-> FALSE, value |-> <<>>]
         ELSE [raised |-> FALSE, value |-> <<>>]

\* strftime('%A') of day_start_local in US/Pacific
DayName(ts) ==
    IF ts = "1762156800" THEN "Monday"
    ELSE IF ts = "1762243200" THEN "Tuesday"
    ELSE "Wednesday"

\* lines 120-131: the dashboard variables, with the defaults of current.get
CurrentOf(data) ==
    LET current == Get(data.json, "current_conditions", <<>>)
    IN  [curr_cond_text |-> Get(current, "conditions", "Unknown"),
         curr_temp |-> Get(current, "air_temperature", "0.0"),
         curr_hum |-> Get(current, "relative_humidity", "0.0")]

\* lines 134-148: one line per day of the first seven, or the fixed text when
\* anything raises while the lines are built
DailyForecastText(data) ==
    IF ~Has(data.json, "forecast") THEN << [text |-> UNAVAILABLE] >>
    ELSE IF ~Has(data.json.forecast, "daily") THEN << [text |-> UNAVAILABLE] >>
    ELSE LET daily_data == Take(data.json.forecast.daily, 7)
         IN  IF \E i \in 1..Len(daily_data) : ~Has(daily_data[i], "day_start_local")
             THEN << [text |-> UNAVAILABLE] >>
             ELSE [i \in 1..Len(daily_data) |->
                     [day_name |-> DayName(daily_data[i].day_start_local),
                      high |-> Get(daily_data[i], "air_temp_high", "N/A"),
                      low |-> Get(daily_data[i], "air_temp_low", "N/A"),
                      cond |-> Get(daily_data[i], "conditions", "N/A"),
                      pop |-> Get(daily_data[i], "precip_probability", "0")]]

\* lines 152-158: the expander headers, up to the first alert that is not an object
RECURSIVE AlertHeaders(_)
AlertHeaders(alerts) ==
    IF alerts = <<>> THEN <<>>
    ELSE IF Head(alerts) = None THEN <<>>
    ELSE << [event_name |-> Get(Head(alerts)[1], "event", "Weather Alert"),
             severity |-> Get(Head(alerts)[1], "severity", "Unknown")] >>
         \o AlertHeaders(Tail(alerts))

\* lines 172-181: the metric tiles; a temperature that is not a number cannot be formatted
MetricTiles(curr) ==
    IF curr.curr_temp = "null" THEN None
    ELSE Some([Condition |-> curr.curr_cond_text,
               Temperature |-> curr.curr_temp,
               Humidity |-> curr.curr_hum])

\* lines 192-204
OutlookPrompt(daily_forecast_text) ==
    << [src |-> "instructions", val |-> "Weather Strategist"],
       [src |-> "forecast", val |-> daily_forecast_text] >>

\* lines 271-282
SystemContext(curr, daily_forecast_text, alerts, question) ==
    << [src |-> "instructions", val |-> "Meteorology Professor"],
       [src |-> "metrics", val |-> [Humidity |-> curr.curr_hum, Temp |-> curr.curr_temp]],
       [src |-> "forecast", val |-> daily_forecast_text],
       [src |-> "question", val |-> question] >>

\* lines 113-114 and 299-300: if "weekly_outlook" in st.session_state: del ...
InvalidateOutlookKept(ss) == ss

InvalidateOutlook(ss) == Del(ss, "weekly_outlook")

\* lines 297-300: the body of the Refresh Data branch before st.rerun()
RefreshDataKeepsForecast(ss) == InvalidateOutlook(ss)

RefreshDataClearsAll(ss) == <<>>

RefreshData(ss) == InvalidateOutlook(Del(ss, "weather_data"))

\* lines 207-208: the outlook is cached only when the response is truthy
CacheOutlookAlways(ss, response_text) ==
    Put(ss, "weekly_outlook", IF response_text = None THEN FALLBACK ELSE response_text[1])

CacheOutlook(ss, response_text) ==
    IF Truthy(response_text) THEN Put(ss, "weekly_outlook", response_text[1]) ELSE ss

\* lines 288-294: the assistant message of a question
AssistantMessage(response_text) ==
    IF Truthy(response_text)
    THEN [role |-> "assistant", content |-> response_text[1]]
    ELSE [role |-> "assistant", content |-> FALLBACK]

(***************************************************************************)
(* ask_gemini_smartly                                                      *)
(***************************************************************************)
NewCall(kind, prompt_text) ==
    [kind |-> kind, prompt_text |-> prompt_text, idx |-> 1, log |-> <<>>,
     done |-> FALSE, result |-> None]

NoCall == NewCall("none", <<>>)

\* the loop that keeps going after a success and returns the last response
AskStepLastWins(c, out) ==
    LET entry == [model |-> models_to_try[c.idx], out |-> out]
        res == IF out # None THEN out ELSE c.result
    IN  IF c.idx = Len(models_to_try)
        THEN [c EXCEPT !.log = Append(@, entry), !.done = TRUE, !.result = res]
        ELSE [c EXCEPT !.log = Append(@, entry), !.idx = @ + 1, !.result = res]

\* one iteration of the for loop: candidate c.idx is tried and answers out
AskStep(c, out) ==
    LET entry == [model |-> models_to_try[c.idx], out |-> out]
    IN  IF out # None
        THEN [c EXCEPT !.log = Append(@, entry), !.done = TRUE, !.result = out]
        ELSE IF c.idx = Len(models_to_try)
        THEN [c EXCEPT !.log = Append(@, entry), !.done = TRUE, !.result = None]
        ELSE [c EXCEPT !.log = Append(@, entry), !.idx = @ + 1]

(***************************************************************************)
(* The script                                                              *)
(***************************************************************************)
NoLocals ==
    [station_info |-> None, data |-> None, curr |-> None, daily_forecast_text |-> <<>>,
     ai_outlook_content |-> None, response_text |-> None]

BlankScreen ==
    [errors |-> <<>>, alerts |-> <<>>, metrics |-> None, outlook |-> None,
     charts |-> FALSE, chat |-> <<>>, chat_input |-> FALSE, button |-> FALSE]

Contents(msgs) == [i \in 1..Len(msgs) |-> msgs[i].content]

Init ==
    /\ session_state = <<>>
    /\ pc = "idle"
    /\ prompt = None
    /\ refresh_clicked = FALSE
    /\ locals = NoLocals
    /\ call = NoCall
    /\ screen = BlankScreen
    /\ net = <<>>
    /\ outlook_fetch = 0
    /\ outlook_failed = FALSE
    /\ after_refresh = FALSE
    /\ msgs0 = <<>>
    /\ nasks = 0
    /\ nrefreshes = 0
    /\ nfetches = 0

\* lines 85-106: the top of the script, up to the test for cached weather data
BeginRun(p, clicked, rerun) ==
    LET ss == IF Has(session_state, "messages") THEN session_state
              ELSE Put(session_state, "messages", << [role |-> "assistant", content |-> GREETING] >>)
    IN  /\ session_state' = ss
        /\ msgs0' = ss.messages
        /\ prompt' = p
        /\ refresh_clicked' = clicked
        /\ after_refresh' = rerun
        /\ locals' = NoLocals
        /\ call' = NoCall
        /\ screen' = BlankScreen
        /\ net' = <<>>
        /\ pc' = IF Has(ss, "weather_data") THEN "parse" ELSE "station"
        /\ UNCHANGED <<outlook_fetch, outlook_failed, nfetches>>

\* the browser opens the page, or the script is rerun without any widget input
PageLoad ==
    /\ pc = "idle"
    /\ BeginRun(None, FALSE, FALSE)
    /\ UNCHANGED <<nasks, nrefreshes>>

\* the user submits a question in st.chat_input
SubmitQuestion ==
    /\ pc = "idle"
    /\ screen.chat_input
    /\ nasks < MaxAsks
    /\ \E q \in Questions : BeginRun(Some(q), FALSE, FALSE)
    /\ nasks' = nasks + 1
    /\ UNCHANGED nrefreshes

\* the user clicks Refresh Data: the script runs with st.button(...) = True
ClickRefresh ==
    /\ pc = "idle"
    /\ screen.button
    /\ nrefreshes < MaxRefreshes
    /\ BeginRun(None, TRUE, FALSE)
    /\ nrefreshes' = nrefreshes + 1
    /\ UNCHANGED nasks

\* the run started by st.rerun()
Rerun ==
    /\ pc = "rerun"
    /\ BeginRun(None, FALSE, TRUE)
    /\ UNCHANGED <<nasks, nrefreshes>>

\* line 303-304: the handler around the whole page
Abort ==
    /\ screen' = [screen EXCEPT !.errors = Append(@, ERR_RUN)]
    /\ pc' = "idle"

\* a station failure that reports the error and carries on
GetStationInfoContinues ==
    /\ pc = "station"
    /\ \E resp \in StationResponses :
         LET station_info == get_station_info(resp)
         IN  IF station_info = None
             THEN /\ net' = Append(net, [api |-> "stations", status |-> "failed"])
                  /\ screen' = [screen EXCEPT !.errors = Append(@, ERR_STATION)]
                  /\ pc' = "forecast"
                  /\ UNCHANGED <<session_state, locals>>
             ELSE /\ net' = Append(net, [api |-> "stations", status |-> "ok"])
                  /\ locals' = [locals EXCEPT !.station_info = station_info]
                  /\ session_state' = Put(session_state, "station_info", station_info[1])
                  /\ pc' = "forecast"
                  /\ UNCHANGED screen
    /\ UNCHANGED <<prompt, refresh_clicked, call, outlook_fetch, outlook_failed,
                   after_refresh, msgs0, nasks, nrefreshes, nfetches>>

\* line 108-109 with lines 55-67
GetStationInfo ==
    /\ pc = "station"
    /\ \E resp \in StationResponses :
         LET station_info == get_station_info(resp)
         IN  IF station_info = None
             THEN /\ net' = Append(net, [api |-> "stations", status |-> "failed"])
                  /\ screen' = [screen EXCEPT !.errors = Append(@, ERR_STATION)]
                  /\ pc' = "idle"
                  /\ UNCHANGED <<session_state, locals>>
             ELSE /\ net' = Append(net, [api |-> "stations", status |-> "ok"])
                  /\ locals' = [locals EXCEPT !.station_info = station_info]
                  /\ session_state' = Put(session_state, "station_info", station_info[1])
                  /\ pc' = "forecast"
                  /\ UNCHANGED screen
    /\ UNCHANGED <<prompt, refresh_clicked, call, outlook_fetch, outlook_failed,
                   after_refresh, msgs0, nasks, nrefreshes, nfetches>>

\* line 110 with lines 69-71
GetTempestForecast ==
    /\ pc = "forecast"
    /\ \E resp \in ForecastResponses(nfetches + 1) :
         LET r == get_tempest_forecast(resp)
         IN  IF r.raised
             THEN /\ net' = Append(net, [api |-> "better_forecast", status |-> "failed"])
                  /\ Abort
                  /\ UNCHANGED <<session_state, nfetches>>
             ELSE /\ net' = Append(net, [api |-> "better_forecast", status |-> "ok"])
                  /\ session_state' = Put(session_state, "weather_data", r.value)
                  /\ nfetches' = nfetches + 1
                  /\ pc' = "alerts"
                  /\ UNCHANGED screen
    /\ UNCHANGED <<prompt, refresh_clicked, locals, call, outlook_fetch, outlook_failed,
                   after_refresh, msgs0, nasks, nrefreshes>>

\* lines 111-114 with lines 73-82
GetNwsAlerts ==
    /\ pc = "alerts"
    /\ \E resp \in AlertResponses :
         LET r == get_nws_alerts(resp)
             status == IF AlertFetchFailed(resp) THEN "failed" ELSE "ok"
         IN  /\ net' = Append(net, [api |-> "alerts", status |-> status])
             /\ IF r.raised
                THEN /\ Abort
                     /\ UNCHANGED session_state
                ELSE /\ session_state' = InvalidateOutlook(Put(session_state, "alerts", r.value))
                     /\ pc' = "parse"
                     /\ UNCHANGED screen
    /\ UNCHANGED <<prompt, refresh_clicked, locals, call, outlook_fetch, outlook_failed,
                   after_refresh, msgs0, nasks, nrefreshes, nfetches>>

\* lines 116-183: the dashboard variables, the forecast text, the alert
\* expanders and the metric tiles
ParseAndRender ==
    /\ pc = "parse"
    /\ LET data == session_state.weather_data
           alerts == session_state.alerts
       IN  IF data.type # "object"
           THEN /\ Abort
                /\ locals' = [locals EXCEPT !.data = Some(data)]
           ELSE LET curr == CurrentOf(data)
                    headers == AlertHeaders(alerts)
                    tiles == MetricTiles(curr)
                IN  /\ locals' = [locals EXCEPT !.data = Some(data),
                                                !.curr = Some(curr),
                                                !.daily_forecast_text = DailyForecastText(data)]
                    /\ IF Len(headers) < Len(alerts)
                       THEN /\ screen' = [screen EXCEPT !.alerts = headers,
                                                        !.errors = Append(@, ERR_RUN)]
                            /\ pc' = "idle"
                       ELSE IF tiles = None
                       THEN /\ screen' = [screen EXCEPT !.alerts = headers,
                                                        !.errors = Append(@, ERR_RUN)]
                            /\ pc' = "idle"
                       ELSE /\ screen' = [screen EXCEPT !.alerts = headers, !.metrics = tiles]
                            /\ pc' = "outlook"
    /\ UNCHANGED <<session_state, prompt, refresh_clicked, call, net, outlook_fetch,
                   outlook_failed, after_refresh, msgs0, nasks, nrefreshes, nfetches>>

\* lines 211-256: the outlook expander, when there is an outlook, and the charts
ShowOutlookAndCharts(scr, ai_outlook_content, data) ==
    LET shown == IF Truthy(ai_outlook_content) THEN ai_outlook_content ELSE None
        hourly_ok == /\ Has(data.json, "forecast")
                     /\ Has(data.json.forecast, "hourly")
                     /\ Len(data.json.forecast.hourly) > 0
    IN  IF hourly_ok
        THEN [scr EXCEPT !.outlook = shown, !.charts = TRUE]
        ELSE [scr EXCEPT !.outlook = shown, !.errors = Append(@, ERR_CHART)]

\* lines 186-205: the cached outlook is used, or ask_gemini_smartly is called
OutlookBlock ==
    /\ pc = "outlook"
    /\ IF Has(session_state, "weekly_outlook")
       THEN LET ai_outlook_content == Some(session_state.weekly_outlook)
            IN  /\ locals' = [locals EXCEPT !.ai_outlook_content = ai_outlook_content]
                /\ screen' = ShowOutlookAndCharts(screen, ai_outlook_content, session_state.weather_data)
                /\ pc' = "chat"
                /\ UNCHANGED call
       ELSE /\ call' = NewCall("outlook", OutlookPrompt(locals.daily_forecast_text))
            /\ pc' = "outlook_call"
            /\ UNCHANGED <<locals, screen>>
    /\ UNCHANGED <<session_state, prompt, refresh_clicked, net, outlook_fetch, outlook_failed,
                   after_refresh, msgs0, nasks, nrefreshes, nfetches>>

\* lines 37-45: one candidate is tried; the function returns on the first
\* success or after the last candidate
TryCandidate ==
    /\ pc \in {"outlook_call", "chat_call"}
    /\ \E out \in Outcomes :
         /\ call' = AskStep(call, out)
         /\ net' = Append(net, [api |-> models_to_try[call.idx],
                                status |-> IF out = None THEN "failed" ELSE "ok"])
    /\ pc' = IF ~call'.done THEN pc
             ELSE IF pc = "outlook_call" THEN "outlook_ret" ELSE "chat_ret"
    /\ UNCHANGED <<session_state, prompt, refresh_clicked, locals, screen, outlook_fetch,
                   outlook_failed, after_refresh, msgs0, nasks, nrefreshes, nfetches>>

\* lines 205-256: the response is cached and shown when it is truthy
OutlookReturn ==
    /\ pc = "outlook_ret"
    /\ LET response_text == call.result
           ai_outlook_content == IF Truthy(response_text) THEN response_text ELSE None
       IN  /\ session_state' = CacheOutlook(session_state, response_text)
           /\ locals' = [locals EXCEPT !.response_text = response_text,
                                        !.ai_outlook_content = ai_outlook_content]
           /\ screen' = ShowOutlookAndCharts(screen, ai_outlook_content, session_state.weather_data)
           /\ outlook_fetch' = IF Has(session_state', "weekly_outlook")
                               THEN session_state.weather_data.fetch ELSE outlook_fetch
           /\ outlook_failed' = (\A i \in 1..Len(call.log) : call.log[i].out = None)
    /\ pc' = "chat"
    /\ UNCHANGED <<prompt, refresh_clicked, call, net, after_refresh, msgs0,
                   nasks, nrefreshes, nfetches>>

\* lines 261-286: the transcript, the input box, and for a submitted
\* question the user message and the call with system_context
ChatBlock ==
    /\ pc = "chat"
    /\ LET shown == [screen EXCEPT !.chat = Contents(session_state.messages), !.chat_input = TRUE]
       IN  IF prompt # None
           THEN /\ screen' = [shown EXCEPT !.chat = Append(@, prompt[1])]
                /\ session_state' = [session_state EXCEPT !.messages =
                                        Append(@, [role |-> "user", content |-> prompt[1]])]
                /\ call' = NewCall("chat", SystemContext(locals.curr[1], locals.daily_forecast_text,
                                                         session_state.alerts, prompt[1]))
                /\ pc' = "chat_call"
           ELSE /\ screen' = shown
                /\ pc' = "button"
                /\ UNCHANGED <<session_state, call>>
    /\ UNCHANGED <<prompt, refresh_clicked, locals, net, outlook_fetch, outlook_failed,
                   after_refresh, msgs0, nasks, nrefreshes, nfetches>>

\* a total failure that is only shown as a warning and never recorded
ChatReturnDropsFallback ==
    /\ pc = "chat_ret"
    /\ LET response_text == call.result
           message == AssistantMessage(response_text)
       IN  /\ locals' = [locals EXCEPT !.response_text = response_text]
           /\ screen' = [screen EXCEPT !.chat = Append(@, message.content)]
           /\ session_state' = IF Truthy(response_text)
                               THEN [session_state EXCEPT !.messages = Append(@, message)]
                               ELSE session_state
    /\ pc' = "button"
    /\ UNCHANGED <<prompt, refresh_clicked, call, net, outlook_fetch, outlook_failed,
                   after_refresh, msgs0, nasks, nrefreshes, nfetches>>

\* lines 286-294: the answer, or the fixed message, is shown and appended
ChatReturn ==
    /\ pc = "chat_ret"
    /\ LET response_text == call.result
           message == AssistantMessage(response_text)
       IN  /\ locals' = [locals EXCEPT !.response_text = response_text]
           /\ screen' = [screen EXCEPT !.chat = Append(@, message.content)]
           /\ session_state' = [session_state EXCEPT !.messages = Append(@, message)]
    /\ pc' = "button"
    /\ UNCHANGED <<prompt, refresh_clicked, call, net, outlook_fetch, outlook_failed,
                   after_refresh, msgs0, nasks, nrefreshes, nfetches>>

\* lines 296-301: the button is drawn; when it was clicked the caches are
\* dropped and st.rerun() starts the script again
RefreshButton ==
    /\ pc = "button"
    /\ screen' = [screen EXCEPT !.button = TRUE]
    /\ IF refresh_clicked
       THEN /\ session_state' = RefreshData(session_state)
            /\ pc' = "rerun"
       ELSE /\ pc' = "idle"
            /\ UNCHANGED session_state
    /\ UNCHANGED <<prompt, refresh_clicked, locals, call, net, outlook_fetch, outlook_failed,
                   after_refresh, msgs0, nasks, nrefreshes, nfetches>>

Next ==
    \/ PageLoad
    \/ SubmitQuestion
    \/ ClickRefresh
    \/ Rerun
    \/ GetStationInfo
    \/ GetTempestForecast
    \/ GetNwsAlerts
    \/ ParseAndRender
    \/ OutlookBlock
    \/ TryCandidate
    \/ OutlookReturn
    \/ ChatBlock
    \/ ChatReturn
    \/ RefreshButton

Spec == Init /\ [][Next]_vars

(***************************************************************************)
(* Properties                                                              *)
(***************************************************************************)
Messages == session_state.messages
Last(s) == s[Len(s)]
IsPrefix(s, t) == Len(s) <= Len(t) /\ \A i \in 1..Len(s) : s[i] = t[i]
AllFailed(log) == \A i \in 1..Len(log) : log[i].out = None
Exhausted(log) == Len(log) = Len(models_to_try) /\ AllFailed(log)
FirstSuccess(log) == CHOOSE i \in 1..Len(log) : log[i].out # None /\ \A j \in 1..(i - 1) : log[j].out = None
InErrors(e) == \E i \in 1..Len(screen.errors) : screen.errors[i] = e
Requested(api, status) == \E i \in 1..Len(net) : net[i] = [api |-> api, status |-> status]
Embedded(prompt_text, src, val) ==
    \E i \in 1..Len(prompt_text) : prompt_text[i].src = src /\ prompt_text[i].val = val

\* C1: whenever some candidate succeeded, the outlook that is cached and shown,
\* and the assistant message appended for a question, is the response text of
\* the first candidate that succeeded, and nothing of the earlier failures is shown.
C1_ResultIsFirstSuccess ==
    /\ (pc = "chat" /\ call.kind = "outlook" /\ ~AllFailed(call.log)) =>
          /\ Has(session_state, "weekly_outlook")
          /\ session_state.weekly_outlook = call.log[FirstSuccess(call.log)].out[1]
          /\ screen.outlook = call.log[FirstSuccess(call.log)].out
          /\ ~InErrors(ERR_RUN)
    /\ (pc = "button" /\ call.kind = "chat" /\ ~AllFailed(call.log)) =>
          /\ Last(Messages) = [role |-> "assistant",
                               content |-> call.log[FirstSuccess(call.log)].out[1]]
          /\ Last(screen.chat) = call.log[FirstSuccess(call.log)].out[1]
          /\ ~InErrors(ERR_RUN)

\* C2: in one call the candidates are tried in list order, each at most once,
\* a candidate only after all earlier ones failed, none after a success, and
\* the call returns None exactly when all of them failed.
C2_SequentialFallback ==
    /\ Len(call.log) <= Len(models_to_try)
    /\ \A i \in 1..Len(call.log) : call.log[i].model = models_to_try[i]
    /\ \A i \in 1..(Len(call.log) - 1) : call.log[i].out = None
    /\ ~call.done => (AllFailed(call.log) /\ call.idx = Len(call.log) + 1)
    /\ call.done => /\ (call.result = None <=> Exhausted(call.log))
                    /\ call.result = Last(call.log).out

C2_Witness ==
    /\ call.done
    /\ Len(call.log) = 3
    /\ call.log[1].out = None /\ call.log[2].out = None
    /\ call.result = Some("Rain by midweek")

\* C3: an outlook on the screen was generated from the forecast that this run
\* reads from the cache and shows in the metric tiles.
C3_OutlookNeverStale ==
    screen.outlook # None =>
        /\ locals.data # None
        /\ outlook_fetch = locals.data[1].fetch
        /\ screen.metrics = MetricTiles(CurrentOf(locals.data[1]))
        /\ pc # "rerun" => (Has(session_state, "weather_data")
                            /\ session_state.weather_data = locals.data[1])

C3_Witness ==
    /\ screen.outlook # None
    /\ after_refresh
    /\ locals.data[1].fetch = 2
    /\ nasks = 1

\* the Refresh Data step, and the run that st.rerun() starts after it
RefreshClears ==
    (pc = "button" /\ refresh_clicked) =>
        /\ ~Has(session_state', "weather_data")
        /\ ~Has(session_state', "weekly_outlook")
        /\ pc' = "rerun"

RefetchAfterRefresh ==
    after_refresh =>
        /\ net = <<>> => (pc = "station" /\ ~Has(session_state, "weather_data")
                                         /\ ~Has(session_state, "weekly_outlook"))
        /\ net # <<>> => net[1].api = "stations"
        /\ locals.data # None =>
              /\ Len(net) >= 3
              /\ net[2] = [api |-> "better_forecast", status |-> "ok"]
              /\ net[3].api = "alerts"
              /\ locals.data[1].fetch = nfetches
        /\ screen.outlook # None =>
              /\ call.kind = "outlook"
              /\ call.prompt_text = OutlookPrompt(DailyForecastText(locals.data[1]))
              /\ screen.outlook = call.result

\* C4: the Refresh Data step removes weather_data and weekly_outlook together;
\* the run that follows starts with the station request, shows only forecast
\* data fetched in that run, and shows an outlook only if it was generated in
\* that run from that data.
C4_RefreshRefetches == [][RefreshClears]_vars /\ []RefetchAfterRefresh

C4_Witness ==
    /\ after_refresh
    /\ pc = "idle"
    /\ screen.outlook # None
    /\ locals.data[1].fetch = 2

\* C5: a submitted question appends the user message and then one assistant
\* message, nothing else; when all candidates failed the assistant message is
\* the fixed text, no error is raised, and the input box is there again.
C5_QuestionAppendsTwo ==
    /\ (prompt # None /\ pc \in {"button", "idle"}) =>
          /\ Messages = msgs0 \o << [role |-> "user", content |-> prompt[1]],
                                   [role |-> "assistant", content |-> Last(Messages).content] >>
          /\ Exhausted(call.log) => Last(Messages).content = FALLBACK
          /\ ~InErrors(ERR_RUN)
          /\ screen.chat_input
          /\ pc = "idle" => screen.button
    /\ (prompt # None /\ pc \in {"chat_call", "chat_ret"}) =>
          Messages = Append(msgs0, [role |-> "user", content |-> prompt[1]])
    /\ (pc = "idle" /\ Has(session_state, "messages")) => Len(Messages) = 1 + 2 * nasks

C5_Witness ==
    /\ pc = "idle"
    /\ prompt # None
    /\ nasks = 2
    /\ Messages[3].content = FALLBACK
    /\ Exhausted(call.log)

\* an exhausted outlook generation, and the outlook step of a later run
NothingCachedAfterFailure ==
    outlook_failed => (~Has(session_state, "weekly_outlook") /\ screen.outlook = None)

RetryFromFirst ==
    /\ (pc = "outlook" /\ ~Has(session_state, "weekly_outlook")) =>
          (pc' = "outlook_call" /\ call'.kind = "outlook" /\ call'.idx = 1 /\ call'.log = <<>>)
    /\ (pc = "outlook_call" /\ call.log = <<>>) =>
          (Len(call'.log) = 1 /\ call'.log[1].model = models_to_try[1])

\* C6: after an outlook generation in which every candidate failed nothing is
\* cached and no outlook is shown; a run that reaches the outlook step without
\* a cached outlook calls the fallback again, beginning with the first candidate.
C6_FailureLeavesCacheUnset == []NothingCachedAfterFailure /\ [][RetryFromFirst]_vars

C6_Witness ==
    /\ outlook_failed
    /\ pc = "outlook_call"
    /\ Len(call.log) = 1
    /\ call.log[1].model = models_to_try[1]

\* C7: a run in which the station request fails ends there: it issues no
\* other request, caches no forecast and calls no model.
C7_StationFailureHalts ==
    Requested("stations", "failed") =>
        /\ net = << [api |-> "stations", status |-> "failed"] >>
        /\ pc = "idle"
        /\ ~Has(session_state, "weather_data")
        /\ call.kind = "none"
        /\ screen.metrics = None

C7_Witness ==
    /\ Requested("stations", "failed")
    /\ after_refresh
    /\ Has(session_state, "station_info")

\* the forecast can be parsed and its metric tiles formatted
Renderable(data) == data.type = "object" /\ MetricTiles(CurrentOf(data)) # None

\* C8: when the alert request raises or carries no usable features, the alert
\* list is empty, the run goes on, and the metric tiles of the forecast
\* fetched in that run are rendered.
C8_AlertFailureDegrades ==
    Requested("alerts", "failed") =>
        /\ Has(session_state, "alerts")
        /\ session_state.alerts = <<>>
        /\ Requested("better_forecast", "ok")
        /\ pc # "parse" =>
              /\ locals.data # None
              /\ locals.data[1].fetch = nfetches
              /\ Renderable(locals.data[1]) =>
                    /\ screen.metrics = MetricTiles(CurrentOf(locals.data[1]))
                    /\ ~InErrors(ERR_RUN)

C8_Witness ==
    /\ Requested("alerts", "failed")
    /\ pc = "idle"
    /\ screen.metrics # None
    /\ screen.button

\* one step of the script seen from the conversation
MessagesOnlyGrow ==
    Has(session_state, "messages") =>
        /\ Has(session_state', "messages")
        /\ IsPrefix(session_state.messages, session_state'.messages)
        /\ prompt' = None => session_state'.messages = session_state.messages

\* C9: no step removes, reorders or rewrites a message, and a step of a run
\* without a question (page load, Refresh Data, the refetch after it, a failed
\* fetch) leaves the conversation as it is.
C9_ConversationAppendOnly == [][MessagesOnlyGrow]_vars

C9_Witness ==
    /\ after_refresh
    /\ pc = "idle"
    /\ Has(session_state, "weather_data")
    /\ session_state.weather_data.fetch = 2
    /\ Len(Messages) = 3

\* C10: the prompt passed for a question embeds the current metrics, the
\* forecast text, the session's alerts and the question.
C10_PromptEmbedsAllInputs ==
    call.kind = "chat" =>
        /\ \E i \in 1..Len(call.prompt_text) : call.prompt_text[i].src = "metrics"
        /\ Embedded(call.prompt_text, "forecast", locals.daily_forecast_text)
        /\ Embedded(call.prompt_text, "alerts", session_state.alerts)
        /\ Embedded(call.prompt_text, "question", prompt[1])

====
